---- MODULE Spec2Model ----
(***************************************************************************)
(* push-while-ref: VecOwner / VecChild and HashMapOwner / HashMapChild     *)
(* over element types implementing StaticType (src/src/lib.rs).            *)
(*                                                                         *)
(* Memory is modelled explicitly: the heap is a sequence of cells, an      *)
(* address is an index into it.  A Box owns one payload cell; a Vec or a   *)
(* HashMap owns a buffer of slot cells that is reallocated (and so moves)  *)
(* when it grows.  A reference handed out by push / try_insert / insert is *)
(* a raw address plus the borrow region ('a) it was issued under.          *)
(***************************************************************************)
EXTENDS Integers, Sequences, FiniteSets, TLC

\* ---------------------------------------------------------------- bounds
MaxPush == 3
MaxHandles == 2

Keys == {"10", "20"}
Values == {10, 20}

\* ---------------------------------------------------------------- state
VARIABLES
    owner,      \* the Owner the program constructed: "vec" or "map"
    debug,      \* cfg!(debug_assertions)
    kinds,      \* representations the element type T can take
    panicked,   \* the thread has panicked (assertion / expect)
    heap,       \* sequence of cells, address = index
    valive,     \* the VecOwner has not been dropped
    vchildren,  \* live VecChild handles (ids)
    vgen,       \* number of child() calls made on the VecOwner
    vec,        \* VecOwner.0 : elements in order
    vecBuf,     \* base address of the Vec's buffer
    vecCap,     \* capacity of the Vec's buffer
    vrefs,      \* references returned by VecChild::push, in order
    vread,      \* last dereference of a Vec reference
    malive,     \* the HashMapOwner has not been dropped
    mchildren,  \* live HashMapChild handles (ids)
    mgen,       \* number of child() calls made on the HashMapOwner
    map,        \* HashMapOwner.0 : entries [key, elem]
    mapBuf,     \* base address of the table
    mapCap,     \* capacity of the table
    mrefs,      \* references returned by try_insert / insert, in order
    mread,      \* last dereference of a map reference
    mres        \* outcome of the last try_insert / insert call

shared == <<owner, debug, kinds, panicked, heap>>
vvars == <<valive, vchildren, vgen, vec, vecBuf, vecCap, vrefs, vread>>
mvars == <<malive, mchildren, mgen, map, mapBuf, mapCap, mrefs, mread, mres>>
vars == <<shared, vvars, mvars>>

\* ---------------------------------------------------------------- heap
FreeCell == [tag |-> "free", val |-> 0]
SlotCell == [tag |-> "slot", val |-> 0]
PayloadCell(v) == [tag |-> "payload", val |-> v]

\* address of a value that still lives in the caller's / callee's frame
StackAddr == 0

IsFree(h, a) == a > Len(h) \/ h[a].tag = "free"

FitsAt(h, base, n) == \A a \in base..(base + n - 1) : IsFree(h, a)

\* first-fit allocation of n contiguous cells
AllocBase(h, n) ==
    CHOOSE b \in 1..(Len(h) + 1) :
        /\ FitsAt(h, b, n)
        /\ \A c \in 1..(b - 1) : ~FitsAt(h, c, n)

Trim(h) ==
    LET used == {a \in 1..Len(h) : h[a].tag # "free"}
        n == IF used = {} THEN 0 ELSE CHOOSE a \in used : \A b \in used : b <= a
    IN SubSeq(h, 1, n)

Store(h, base, n, cell) ==
    LET top == IF base + n - 1 > Len(h) THEN base + n - 1 ELSE Len(h)
    IN [a \in 1..top |->
            IF a \in base..(base + n - 1) THEN cell
            ELSE IF a <= Len(h) THEN h[a] ELSE FreeCell]

FreeRange(h, base, n) ==
    Trim([a \in 1..Len(h) |-> IF a \in base..(base + n - 1) THEN FreeCell ELSE h[a]])

\* ---------------------------------------------------------------- elements
\* Box::new(v): the payload goes to a fresh heap cell, the Box holds its address
BoxNew(h, v) ==
    LET a == AllocBase(h, 1)
    IN [heap |-> Store(h, a, 1, PayloadCell(v)), elem |-> [kind |-> "Box", data |-> a]]

\* an implementer that keeps its payload inline and returns its own address
InlineNew(h, v) == [heap |-> h, elem |-> [kind |-> "Inline", data |-> v]]

MakeElem(h, kind, v) == IF kind = "Box" THEN BoxNew(h, v) ELSE InlineNew(h, v)

\* variant: ref_ptr yields the address of the element itself (`&*self`)
ref_ptr_self(e, at) == at

\* StaticType::ref_ptr of element e that currently lives at address `at`
ref_ptr(e, at) == IF e.kind = "Box" THEN e.data ELSE at

\* dropping an element: a Box frees its payload
DropElem(h, e) == IF e.kind = "Box" THEN FreeRange(h, e.data, 1) ELSE h

RECURSIVE DropAll(_, _)
DropAll(h, es) == IF es = <<>> THEN h ELSE DropAll(DropElem(h, Head(es)), Tail(es))

\* values a read through a raw address can produce
UBValues == Values \cup {0}
DerefOutcomes(h, ptr) ==
    IF ptr \in 1..Len(h) /\ h[ptr].tag = "payload" THEN {h[ptr].val} ELSE UBValues

\* ---------------------------------------------------------------- growth
GrowCap(cap) == IF cap = 0 THEN 1 ELSE 2 * cap

\* make room for one more slot in a buffer holding len slots
Reserve(h, buf, cap, len) ==
    IF len < cap THEN [heap |-> h, buf |-> buf, cap |-> cap]
    ELSE LET ncap == GrowCap(cap)
             nb == AllocBase(h, ncap)
             h1 == Store(h, nb, ncap, SlotCell)
             h2 == IF cap > 0 THEN FreeRange(h1, buf, cap) ELSE h1
         IN [heap |-> h2, buf |-> nb, cap |-> ncap]

SlotAddr(buf, i) == buf + i - 1

\* ---------------------------------------------------------------- Vec
\* std Vec::push: the element moves from the caller's frame into the last slot
VecPush(h, v, buf, cap, e) ==
    LET r == Reserve(h, buf, cap, Len(v))
    IN [heap |-> r.heap, buf |-> r.buf, cap |-> r.cap, vec |-> Append(v, e)]

\* variant: the promise is never verified
VecPromiseUnchecked(dbg, v, buf, ptr) == TRUE

\* debug_assert_eq!(self.0.last().unwrap().ref_ptr(), ptr): TRUE when it passes
VecPromiseHeld(dbg, v, buf, ptr) ==
    dbg => ref_ptr(v[Len(v)], SlotAddr(buf, Len(v))) = ptr

\* variant: push hands out the address of the slot instead of the payload's
VecOwnerPushSlotPtr(h, v, buf, cap, e, dbg) ==
    LET ptr == ref_ptr(e, StackAddr)
        p == VecPush(h, v, buf, cap, e)
    IN [heap |-> p.heap, buf |-> p.buf, cap |-> p.cap, vec |-> p.vec,
        panic |-> ~VecPromiseHeld(dbg, p.vec, p.buf, ptr),
        ptr |-> SlotAddr(p.buf, Len(p.vec))]

\* VecOwner::push
VecOwnerPush(h, v, buf, cap, e, dbg) ==
    LET ptr == ref_ptr(e, StackAddr)
        p == VecPush(h, v, buf, cap, e)
    IN [heap |-> p.heap, buf |-> p.buf, cap |-> p.cap, vec |-> p.vec,
        panic |-> ~VecPromiseHeld(dbg, p.vec, p.buf, ptr),
        ptr |-> ptr]

NoRead == [ref |-> 0, val |-> 0]

\* variant: regions are never ended
EndRegionsNone(refs) == refs

\* a new exclusive borrow of the owner ends the region of every earlier one
EndRegions(refs) == [i \in 1..Len(refs) |-> [refs[i] EXCEPT !.live = FALSE]]

\* variant: child(&self), a shared borrow
VecCanBorrowShared == owner = "vec" /\ valive

\* `&mut self`: no other borrow of the owner is live
VecCanBorrow == owner = "vec" /\ valive /\ vchildren = {}

\* VecOwner::child
VecOwnerChild ==
    /\ ~panicked
    /\ VecCanBorrow
    /\ vgen < MaxHandles
    /\ vgen' = vgen + 1
    /\ vchildren' = vchildren \cup {vgen + 1}
    /\ vrefs' = EndRegions(vrefs)
    /\ UNCHANGED <<shared, valive, vec, vecBuf, vecCap, vread, mvars>>

\* the reference &'a T::Ref that VecChild::push makes of the raw pointer; val (the
\* value pushed) and slot (where the element was moved to) are kept for reference
VecRef(c, ptr, val, slot) ==
    [ptr |-> ptr, val |-> val, gen |-> c, live |-> TRUE, slot |-> slot]

\* VecChild::push, with the construction of its argument
VecChildPush(c, val, kind) ==
    /\ ~panicked
    /\ valive
    /\ c \in vchildren
    /\ kind \in kinds
    /\ Len(vec) < MaxPush
    /\ LET made == MakeElem(heap, kind, val)
           r == VecOwnerPush(made.heap, vec, vecBuf, vecCap, made.elem, debug)
       IN /\ heap' = r.heap
          /\ vec' = r.vec
          /\ vecBuf' = r.buf
          /\ vecCap' = r.cap
          /\ panicked' = r.panic
          /\ vrefs' = IF r.panic THEN vrefs ELSE Append(vrefs, VecRef(c, r.ptr, val, SlotAddr(r.buf, Len(r.vec))))
    /\ UNCHANGED <<owner, debug, kinds, valive, vchildren, vgen, vread, mvars>>

\* variant: push returns a reference bound to the handle's own scope
VecChildDropEndsRefs(c) ==
    /\ ~panicked
    /\ c \in vchildren
    /\ vchildren' = vchildren \ {c}
    /\ vrefs' = EndRegions(vrefs)
    /\ UNCHANGED <<shared, valive, vgen, vec, vecBuf, vecCap, vread, mvars>>

\* the VecChild goes out of scope; references it returned are not bound to it
VecChildDrop(c) ==
    /\ ~panicked
    /\ c \in vchildren
    /\ vchildren' = vchildren \ {c}
    /\ UNCHANGED <<shared, valive, vgen, vec, vecBuf, vecCap, vrefs, vread, mvars>>

\* reading through a reference returned by push, while its region is open
VecDeref(i) ==
    /\ ~panicked
    /\ i \in 1..Len(vrefs)
    /\ vrefs[i].live
    /\ \E x \in DerefOutcomes(heap, vrefs[i].ptr) : vread' = [ref |-> i, val |-> x]
    /\ UNCHANGED <<shared, valive, vchildren, vgen, vec, vecBuf, vecCap, vrefs, mvars>>

\* the VecOwner goes out of scope: elements and buffer are freed
VecOwnerDrop ==
    /\ ~panicked
    /\ VecCanBorrow
    /\ valive' = FALSE
    /\ heap' = (LET h1 == DropAll(heap, vec)
                IN IF vecCap > 0 THEN FreeRange(h1, vecBuf, vecCap) ELSE h1)
    /\ vec' = <<>>
    /\ vecBuf' = 0
    /\ vecCap' = 0
    /\ vrefs' = EndRegions(vrefs)
    /\ UNCHANGED <<owner, debug, kinds, panicked, vchildren, vgen, vread, mvars>>

NextVec ==
    \/ VecOwnerChild
    \/ \E c \in 1..MaxHandles, val \in Values, kind \in {"Box", "Inline"} : VecChildPush(c, val, kind)
    \/ \E c \in 1..MaxHandles : VecChildDrop(c)
    \/ \E i \in 1..MaxPush : VecDeref(i)
    \/ VecOwnerDrop

\* ---------------------------------------------------------------- HashMap
\* HashMap::contains_key
contains_key(m, key) == \E i \in 1..Len(m) : m[i].key = key

\* position of key's entry in the table
PosOf(m, key) == CHOOSE i \in 1..Len(m) : m[i].key = key

\* HashMap::get(&key).unwrap(): the stored element and the address of its slot
MapGet(m, buf, key) == [elem |-> m[PosOf(m, key)].elem, at |-> SlotAddr(buf, PosOf(m, key))]

\* std HashMap::insert: a present key has its value replaced and the old value
\* dropped; an absent key takes a new slot, growing the table when it is full
HashMapInsert(h, m, buf, cap, key, e) ==
    IF contains_key(m, key)
    THEN LET i == PosOf(m, key)
         IN [heap |-> DropElem(h, m[i].elem), buf |-> buf, cap |-> cap,
             map |-> [m EXCEPT ![i].elem = e]]
    ELSE LET r == Reserve(h, buf, cap, Len(m))
         IN [heap |-> r.heap, buf |-> r.buf, cap |-> r.cap,
             map |-> Append(m, [key |-> key, elem |-> e])]

\* variant: the assertion compares with the address of the slot
MapPromiseSlot(m, buf, key, ptr) == ptr = MapGet(m, buf, key).at

\* assert_eq!(ptr, v.ref_ptr()) of the cfg!(debug_assertions) branch
MapPromiseHeld(m, buf, key, ptr) ==
    LET got == MapGet(m, buf, key) IN ptr = ref_ptr(got.elem, got.at)

\* variants: the duplicate test is missing / inverted
KeyTakenNever(m, key) == FALSE
KeyTakenInverted(m, key) == ~contains_key(m, key)

\* the `if self.0.contains_key(&key) { return None }` test
KeyTaken(m, key) == contains_key(m, key)

\* K: Clone, `key.clone()` of the checked branch
KeyClone(key) == key

\* HashMapOwner::try_insert
OwnerTryInsert(h, m, buf, cap, key, e, dbg) ==
    IF KeyTaken(m, key)
    THEN [heap |-> DropElem(h, e), map |-> m, buf |-> buf, cap |-> cap,
          out |-> "None", ptr |-> 0]
    ELSE LET ptr == ref_ptr(e, StackAddr)
         IN IF dbg
            THEN LET r == HashMapInsert(h, m, buf, cap, KeyClone(key), e)
                 IN [heap |-> r.heap, map |-> r.map, buf |-> r.buf, cap |-> r.cap,
                     out |-> IF MapPromiseHeld(r.map, r.buf, key, ptr) THEN "Some" ELSE "Panic",
                     ptr |-> IF MapPromiseHeld(r.map, r.buf, key, ptr) THEN ptr ELSE 0]
            ELSE LET r == HashMapInsert(h, m, buf, cap, key, e)
                 IN [heap |-> r.heap, map |-> r.map, buf |-> r.buf, cap |-> r.cap,
                     out |-> "Some", ptr |-> ptr]

NoCall == [op |-> "none", key |-> "", val |-> 0, out |-> "None"]

MapCanBorrow == owner = "map" /\ malive /\ mchildren = {}

\* HashMapOwner::child
HashMapOwnerChild ==
    /\ ~panicked
    /\ MapCanBorrow
    /\ mgen < MaxHandles
    /\ mgen' = mgen + 1
    /\ mchildren' = mchildren \cup {mgen + 1}
    /\ mrefs' = EndRegions(mrefs)
    /\ UNCHANGED <<shared, malive, map, mapBuf, mapCap, mread, mres, vvars>>

MapRef(c, key, ptr, val, slot) ==
    [ptr |-> ptr, val |-> val, key |-> key, gen |-> c, live |-> TRUE, slot |-> slot]

\* HashMapChild::try_insert, with the construction of its argument
HashMapChildTryInsert(c, key, val, kind) ==
    /\ ~panicked
    /\ malive
    /\ c \in mchildren
    /\ kind \in kinds
    /\ LET made == MakeElem(heap, kind, val)
           r == OwnerTryInsert(made.heap, map, mapBuf, mapCap, key, made.elem, debug)
       IN /\ heap' = r.heap
          /\ map' = r.map
          /\ mapBuf' = r.buf
          /\ mapCap' = r.cap
          /\ panicked' = (r.out = "Panic")
          /\ mrefs' = IF r.out = "Some" THEN Append(mrefs, MapRef(c, key, r.ptr, val, MapGet(r.map, r.buf, key).at))
                      ELSE mrefs
          /\ mres' = [op |-> "try_insert", key |-> key, val |-> val, out |-> r.out]
    /\ UNCHANGED <<owner, debug, kinds, malive, mchildren, mgen, mread, vvars>>

\* variant: a None is passed on as a (null) reference
ExpectLenient(out) == IF out = "Panic" THEN "Panic" ELSE "Some"

\* what .expect("Key already exists") makes of try_insert's result
Expect(out) == IF out = "Some" THEN "Some" ELSE "Panic"

\* HashMapChild::insert, with the construction of its argument
HashMapChildInsert(c, key, val, kind) ==
    /\ ~panicked
    /\ malive
    /\ c \in mchildren
    /\ kind \in kinds
    /\ LET made == MakeElem(heap, kind, val)
           r == OwnerTryInsert(made.heap, map, mapBuf, mapCap, key, made.elem, debug)
           out == Expect(r.out)
       IN /\ heap' = r.heap
          /\ map' = r.map
          /\ mapBuf' = r.buf
          /\ mapCap' = r.cap
          /\ panicked' = (out = "Panic")
          /\ mrefs' = IF out = "Some" THEN Append(mrefs, MapRef(c, key, r.ptr, val, MapGet(r.map, r.buf, key).at))
                      ELSE mrefs
          /\ mres' = [op |-> "insert", key |-> key, val |-> val, out |-> out]
    /\ UNCHANGED <<owner, debug, kinds, malive, mchildren, mgen, mread, vvars>>

\* the HashMapChild goes out of scope
HashMapChildDrop(c) ==
    /\ ~panicked
    /\ c \in mchildren
    /\ mchildren' = mchildren \ {c}
    /\ UNCHANGED <<shared, malive, mgen, map, mapBuf, mapCap, mrefs, mread, mres, vvars>>

\* reading through a reference returned by try_insert / insert
MapDeref(i) ==
    /\ ~panicked
    /\ i \in 1..Len(mrefs)
    /\ mrefs[i].live
    /\ \E x \in DerefOutcomes(heap, mrefs[i].ptr) : mread' = [ref |-> i, val |-> x]
    /\ UNCHANGED <<shared, malive, mchildren, mgen, map, mapBuf, mapCap, mrefs, mres, vvars>>

MapElems(m) == [i \in 1..Len(m) |-> m[i].elem]

\* the HashMapOwner goes out of scope
HashMapOwnerDrop ==
    /\ ~panicked
    /\ MapCanBorrow
    /\ malive' = FALSE
    /\ heap' = (LET h1 == DropAll(heap, MapElems(map))
                IN IF mapCap > 0 THEN FreeRange(h1, mapBuf, mapCap) ELSE h1)
    /\ map' = <<>>
    /\ mapBuf' = 0
    /\ mapCap' = 0
    /\ mrefs' = EndRegions(mrefs)
    /\ UNCHANGED <<owner, debug, kinds, panicked, mchildren, mgen, mread, mres, vvars>>

NextMap ==
    \/ HashMapOwnerChild
    \/ \E c \in 1..MaxHandles, key \in Keys, val \in Values, kind \in {"Box", "Inline"} :
            HashMapChildTryInsert(c, key, val, kind)
    \/ \E c \in 1..MaxHandles, key \in Keys, val \in Values, kind \in {"Box", "Inline"} :
            HashMapChildInsert(c, key, val, kind)
    \/ \E c \in 1..MaxHandles : HashMapChildDrop(c)
    \/ \E i \in 1..Cardinality(Keys) : MapDeref(i)
    \/ HashMapOwnerDrop

\* ---------------------------------------------------------------- specifications
InitCommon ==
    /\ owner \in {"vec", "map"}
    /\ debug \in BOOLEAN
    /\ panicked = FALSE
    /\ heap = <<>>
    /\ valive = TRUE
    /\ vchildren = {}
    /\ vgen = 0
    /\ vec = <<>>
    /\ vecBuf = 0
    /\ vecCap = 0
    /\ vrefs = <<>>
    /\ vread = NoRead
    /\ malive = TRUE
    /\ mchildren = {}
    /\ mgen = 0
    /\ map = <<>>
    /\ mapBuf = 0
    /\ mapCap = 0
    /\ mrefs = <<>>
    /\ mread = NoRead
    /\ mres = NoCall

\* T = Box<_>, the implementer the crate provides
Init == InitCommon /\ kinds = {"Box"}

\* T may also be an implementer that breaks the promise of StaticType
InitContract == InitCommon /\ kinds \in {{"Box"}, {"Box", "Inline"}}

Next == NextVec \/ NextMap

Spec == Init /\ [][Next]_vars

SpecContract == InitContract /\ [][Next]_vars

\* ---------------------------------------------------------------- lifecycle
VState ==
    IF ~valive THEN "Destroyed"
    ELSE IF vchildren # {} THEN "Staged"
    ELSE IF vgen = 0 THEN "Empty" ELSE "Idle"

MState ==
    IF ~malive THEN "Destroyed"
    ELSE IF mchildren # {} THEN "Staged"
    ELSE IF mgen = 0 THEN "Empty" ELSE "Idle"

\* the only value a read through reference r can give is the value inserted
ReadsBack(r) == DerefOutcomes(heap, r.ptr) = {r.val}

\* ---------------------------------------------------------------- claims

\* C1: Sequential Store. The reference returned by push i reads back the value
\* passed to push i in every later state of the VecOwner, whatever pushes
\* follow and however often the Vec's buffer has been reallocated; every read
\* made through it gave that value.
C1_PushRefsReadBack ==
    (owner = "vec" /\ valive) =>
        /\ Len(vrefs) = Len(vec)
        /\ \A i \in 1..Len(vrefs) : ReadsBack(vrefs[i])
        /\ vread.ref \in 1..Len(vrefs) => vread.val = vrefs[vread.ref].val

C1_Witness ==
    /\ owner = "vec"
    /\ Len(vrefs) = 3
    /\ vrefs[1].val = 10
    /\ vrefs[2].val = 20
    /\ SlotAddr(vecBuf, 1) # vrefs[1].slot
    /\ vread = [ref |-> 1, val |-> 10]

\* C8: address stability with Box elements. For every stored element the
\* address its ref_ptr yields now, at the slot it occupies now, is the address
\* handed out when it was inserted, also after its slot has moved.
C8_AddressStable ==
    /\ (owner = "vec" /\ valive) =>
          \A i \in 1..Len(vrefs) :
              /\ i <= Len(vec)
              /\ ref_ptr(vec[i], SlotAddr(vecBuf, i)) = vrefs[i].ptr
    /\ (owner = "map" /\ malive) =>
          \A i \in 1..Len(mrefs) :
              /\ contains_key(map, mrefs[i].key)
              /\ LET got == MapGet(map, mapBuf, mrefs[i].key)
                 IN ref_ptr(got.elem, got.at) = mrefs[i].ptr

C8_Witness ==
    /\ owner = "map"
    /\ malive
    /\ Len(mrefs) = 2
    /\ MapGet(map, mapBuf, mrefs[1].key).at # mrefs[1].slot

\* C6: at most one insertion handle per Owner is live at any time, and while
\* one is live child() cannot be called.
C6_OneHandle ==
    /\ Cardinality(vchildren) <= 1
    /\ Cardinality(mchildren) <= 1
    /\ vchildren # {} => ~ENABLED VecOwnerChild
    /\ mchildren # {} => ~ENABLED HashMapOwnerChild

C6_Witness ==
    /\ owner = "vec"
    /\ vgen = 2
    /\ vchildren = {2}
    /\ Len(vec) = 2
    /\ vrefs[2].gen = 2

\* C5 as stated: every reference returned by an insertion stays usable, and
\* reads back its value, for as long as the Owner lives -- across the drop of
\* its handle and across later handles obtained by child().
C5_UsableWhileOwnerLives ==
    /\ (owner = "vec" /\ valive) =>
          \A i \in 1..Len(vrefs) : vrefs[i].live /\ ReadsBack(vrefs[i])
    /\ (owner = "map" /\ malive) =>
          \A i \in 1..Len(mrefs) : mrefs[i].live /\ ReadsBack(mrefs[i])

\* C5 amended: while the Owner lives the payload behind every reference ever
\* returned stays in place and unchanged; the reference stays usable after the
\* handle that produced it is dropped and across later insertions through
\* that handle, until child() is called again on the Owner: that call needs
\* the exclusive borrow back and ends the reference's region.
C5_UsableUntilNextChild ==
    /\ (owner = "vec" /\ valive) =>
          \A i \in 1..Len(vrefs) :
              /\ ReadsBack(vrefs[i])
              /\ vrefs[i].live <=> vrefs[i].gen = vgen
    /\ (owner = "map" /\ malive) =>
          \A i \in 1..Len(mrefs) :
              /\ ReadsBack(mrefs[i])
              /\ mrefs[i].live <=> mrefs[i].gen = mgen

C5_Witness ==
    /\ owner = "vec"
    /\ VState = "Idle"
    /\ Len(vrefs) = 2
    /\ vrefs[1].live
    /\ vrefs[1].gen = 1
    /\ vread = [ref |-> 1, val |-> vrefs[1].val]

Kinds == {"Box", "Inline"}
Handles == 1..MaxHandles

\* every reference of the map reads back its value in the next state
MapRefsReadBackNext == \A i \in 1..Len(mrefs') : DerefOutcomes(heap', mrefs'[i].ptr) = {mrefs'[i].val}

\* C2: try_insert(key, v2) on a key that holds v1 returns None and mutates
\* nothing: same entries and element count, same payloads (v2's box is freed
\* again, v1 stays), no new reference, earlier references read back as before.
C2_TryInsertDuplicate ==
    [][\A c \in Handles, key \in Keys, val \in Values, kind \in Kinds :
          (HashMapChildTryInsert(c, key, val, kind) /\ contains_key(map, key)) =>
              /\ mres'.out = "None"
              /\ ~panicked'
              /\ map' = map
              /\ Len(map') = Len(map)
              /\ heap' = heap
              /\ mapBuf' = mapBuf
              /\ mrefs' = mrefs
              /\ MapRefsReadBackNext]_vars

C2_Witness ==
    /\ mres.op = "try_insert"
    /\ mres.out = "None"
    /\ mres.key = "10"
    /\ mres.val = 20
    /\ Len(map) = 1
    /\ Len(mrefs) = 1
    /\ mrefs[1].key = "10"
    /\ mrefs[1].val = 10
    /\ ReadsBack(mrefs[1])

\* C3: insert(key, v2) on a key that holds v1 panics; v1 is not overwritten,
\* v2 is not stored and no reference is returned.
C3_InsertDuplicatePanics ==
    [][\A c \in Handles, key \in Keys, val \in Values, kind \in Kinds :
          (HashMapChildInsert(c, key, val, kind) /\ contains_key(map, key)) =>
              /\ panicked'
              /\ mres'.out = "Panic"
              /\ map' = map
              /\ heap' = heap
              /\ mrefs' = mrefs
              /\ MapRefsReadBackNext]_vars

C3_Witness ==
    /\ panicked
    /\ mres = [op |-> "insert", key |-> "10", val |-> 20, out |-> "Panic"]
    /\ Len(map) = 1
    /\ Len(mrefs) = 1
    /\ mrefs[1].val = 10
    /\ ReadsBack(mrefs[1])

\* C4: try_insert(key, v) on an absent key returns Some, adds exactly one
\* entry (key -> v), leaves every other entry and its payload as it was, and
\* the returned reference reads back v.
C4_TryInsertFresh ==
    [][\A c \in Handles, key \in Keys, val \in Values, kind \in Kinds :
          (HashMapChildTryInsert(c, key, val, kind) /\ ~contains_key(map, key)) =>
              /\ mres'.out = "Some"
              /\ ~panicked'
              /\ Len(map') = Len(map) + 1
              /\ \A i \in 1..Len(map) :
                    /\ map'[i] = map[i]
                    /\ heap'[map[i].elem.data] = heap[map[i].elem.data]
              /\ map'[Len(map')].key = key
              /\ Len(mrefs') = Len(mrefs) + 1
              /\ SubSeq(mrefs', 1, Len(mrefs)) = mrefs
              /\ mrefs'[Len(mrefs')].key = key
              /\ mrefs'[Len(mrefs')].val = val
              /\ mrefs'[Len(mrefs')].live
              /\ mrefs'[Len(mrefs')].ptr = ref_ptr(MapGet(map', mapBuf', key).elem,
                                                      MapGet(map', mapBuf', key).at)
              /\ DerefOutcomes(heap', mrefs'[Len(mrefs')].ptr) = {val}]_vars

C4_Witness ==
    /\ mres = [op |-> "try_insert", key |-> "20", val |-> 20, out |-> "Some"]
    /\ Len(map) = 2
    /\ Len(mrefs) = 2
    /\ mrefs[2].key = "20"
    /\ ReadsBack(mrefs[2])
    /\ ReadsBack(mrefs[1])

\* C7: in a checked build an insertion of an element whose ref_ptr after the
\* move differs from the one taken before it panics right after the element
\* is stored and returns no reference.
C7_CheckedBuildPanics ==
    [][debug =>
        /\ \A c \in Handles, val \in Values :
              VecChildPush(c, val, "Inline") =>
                  /\ panicked'
                  /\ Len(vec') = Len(vec) + 1
                  /\ vrefs' = vrefs
        /\ \A c \in Handles, key \in Keys, val \in Values :
              ((HashMapChildTryInsert(c, key, val, "Inline")
                    \/ HashMapChildInsert(c, key, val, "Inline"))
                /\ ~contains_key(map, key)) =>
                  /\ panicked'
                  /\ mres'.out = "Panic"
                  /\ Len(map') = Len(map) + 1
                  /\ mrefs' = mrefs]_vars

C7_Witness ==
    /\ debug
    /\ panicked
    /\ owner = "vec"
    /\ Len(vec) = 2
    /\ vec[2].kind = "Inline"
    /\ Len(vrefs) = 1

\* C9: each Owner moves Empty -> Staged -> Idle -> Staged ... -> Destroyed.
\* Elements are inserted only while a handle is live, a handle is obtained
\* only from Empty or Idle, and nothing happens to a Destroyed owner: no
\* handle, no insertion, no read through a reference.
LifecycleSteps ==
    {<<"Empty", "Staged">>, <<"Staged", "Idle">>, <<"Idle", "Staged">>,
     <<"Empty", "Destroyed">>, <<"Idle", "Destroyed">>}

C9_Lifecycle ==
    [][/\ owner = "vec" =>
            /\ VState' # VState => <<VState, VState'>> \in LifecycleSteps
            /\ (valive' /\ vec' # vec) => (VState = "Staged" /\ VState' = "Staged")
            /\ vrefs' # vrefs /\ Len(vrefs') > Len(vrefs) => VState = "Staged"
            /\ vread' # vread => (VState \in {"Staged", "Idle"} /\ vrefs[vread'.ref].live)
            /\ VState = "Destroyed" => UNCHANGED <<vvars, heap>>
       /\ owner = "map" =>
            /\ MState' # MState => <<MState, MState'>> \in LifecycleSteps
            /\ (malive' /\ map' # map) => (MState = "Staged" /\ MState' = "Staged")
            /\ mres' # mres => MState = "Staged"
            /\ mread' # mread => (MState \in {"Staged", "Idle"} /\ mrefs[mread'.ref].live)
            /\ MState = "Destroyed" => UNCHANGED <<mvars, heap>>]_vars

C9_Witness ==
    /\ owner = "vec"
    /\ VState = "Destroyed"
    /\ vgen = 2
    /\ Len(vrefs) = 2
    /\ vrefs[1].gen = 1
    /\ vrefs[2].gen = 2
    /\ vread.ref = 2

\* C10: for Box elements the checked and the unchecked branch of
\* HashMapOwner::try_insert agree: from the same table, key and value they give
\* the same result, the same address and the same table and heap.
C10_BranchesAgree ==
    (owner = "map" /\ malive) =>
        \A key \in Keys, val \in Values :
            LET made == BoxNew(heap, val)
                chk == OwnerTryInsert(made.heap, map, mapBuf, mapCap, key, made.elem, TRUE)
                rel == OwnerTryInsert(made.heap, map, mapBuf, mapCap, key, made.elem, FALSE)
            IN /\ chk = rel
               /\ chk.out \in {"None", "Some"}
               /\ chk.out = "Some" <=> ~contains_key(map, key)

C10_Witness ==
    /\ owner = "map"
    /\ malive
    /\ Len(map) = 1
    /\ map[1].key = "10"
    /\ OwnerTryInsert(BoxNew(heap, 20).heap, map, mapBuf, mapCap, "20",
                      BoxNew(heap, 20).elem, TRUE).out = "Some"
    /\ OwnerTryInsert(BoxNew(heap, 20).heap, map, mapBuf, mapCap, "10",
                      BoxNew(heap, 20).elem, FALSE).out = "None"

====
